---- MODULE Spec2Model ----
(***************************************************************************)
(* Model of the Triton kernels of triton_kernel_dev.ipynb.                 *)
(*                                                                         *)
(* Numbers.  A float is a record [k, n, d]: k = "fin" is the rational n/d  *)
(* in lowest terms (d > 0); k = "ninf", "pinf", "nan" are the IEEE special *)
(* values; k = "uninit" is a cell of torch.empty_like that was never       *)
(* stored to.  Arithmetic on finite values is exact rational arithmetic    *)
(* (rounding of the mantissa is not modelled); the special values follow   *)
(* IEEE-754.  tl.exp is modelled as the exponential to base 2 on the       *)
(* integers, saturating as the float exponential does: it underflows to 0  *)
(* below -ExpRange and overflows to +inf above ExpRange.                   *)
(***************************************************************************)
EXTENDS Integers, Sequences, FiniteSets, TLC

\* ---------------------------------------------------------------- bounds
\* longest row (n_cols) explored
MaxLen == 3
\* most rows (n_rows) of the tensor given to the fused kernel
MaxRows == 3
\* |x| up to which 2^x is representable; beyond it tl.exp saturates
ExpRange == 6

\* the largest config.num_epochs explored
MaxEpochs == 4

\* the largest len(train_dataloader) explored
MaxBatches == 3

\* the largest config.save_image_epochs / config.save_model_epochs explored
MaxInterval == 3

\* the largest multiprocessor_count, warpSize, max_shared_mem, kernel.n_regs
\* and kernel.metadata.shared explored
MaxProp == 2

\* max_num_regs and max_threads_per_sm explored: 1 and the multiples of
\* num_warps up to MaxUnits * num_warps
MaxUnits == 1

\* ------------------------------------------------------------- numbers
Fin(n, d) == [k |-> "fin", n |-> n, d |-> d]
NegInf == [k |-> "ninf", n |-> 0, d |-> 1]
PosInf == [k |-> "pinf", n |-> 0, d |-> 1]
NaN == [k |-> "nan", n |-> 0, d |-> 1]
Uninit == [k |-> "uninit", n |-> 0, d |-> 1]
Zero == Fin(0, 1)
One == Fin(1, 1)

IsFin(a) == a.k = "fin"
IsNaN(a) == a.k = "nan"

Abs(i) == IF i < 0 THEN -i ELSE i

RECURSIVE GCD(_, _)
GCD(a, b) == IF b = 0 THEN a ELSE GCD(b, a % b)

\* the rational n/d (d # 0) in lowest terms with a positive denominator
Norm(n, d) ==
    LET g == GCD(Abs(n), Abs(d))
        s == IF d < 0 THEN -1 ELSE 1
    IN Fin((s * n) \div g, (s * d) \div g)

\* -1, 0, 1: the sign of a non-NaN float
Sign(a) ==
    CASE a.k = "ninf" -> -1
      [] a.k = "pinf" -> 1
      [] OTHER -> IF a.n < 0 THEN -1 ELSE IF a.n > 0 THEN 1 ELSE 0

Inf(s) == IF s < 0 THEN NegInf ELSE PosInf

Neg(a) ==
    CASE a.k = "fin" -> Fin(-a.n, a.d)
      [] a.k = "ninf" -> PosInf
      [] a.k = "pinf" -> NegInf
      [] OTHER -> NaN

\* float addition: inf + (-inf) is NaN
Add(a, b) ==
    CASE a.k \notin {"fin", "ninf", "pinf"} \/ b.k \notin {"fin", "ninf", "pinf"} -> NaN
      [] a.k = "fin" /\ b.k = "fin" -> Norm(a.n * b.d + b.n * a.d, a.d * b.d)
      [] a.k = "fin" -> b
      [] b.k = "fin" -> a
      [] OTHER -> IF a.k = b.k THEN a ELSE NaN

\* float subtraction: (-inf) - (-inf) is NaN
Sub(a, b) == Add(a, Neg(b))

\* float multiplication: 0 * inf is NaN
Mul(a, b) ==
    CASE a.k \notin {"fin", "ninf", "pinf"} \/ b.k \notin {"fin", "ninf", "pinf"} -> NaN
      [] a.k = "fin" /\ b.k = "fin" -> Norm(a.n * b.n, a.d * b.d)
      [] OTHER -> IF Sign(a) * Sign(b) = 0 THEN NaN ELSE Inf(Sign(a) * Sign(b))

\* float division: x/0 is an infinity, 0/0 and inf/inf are NaN
Div(a, b) ==
    CASE a.k \notin {"fin", "ninf", "pinf"} \/ b.k \notin {"fin", "ninf", "pinf"} -> NaN
      [] a.k = "fin" /\ b.k = "fin" ->
            IF b.n # 0 THEN Norm(a.n * b.d, a.d * b.n)
            ELSE IF a.n = 0 THEN NaN ELSE Inf(Sign(a))
      [] a.k = "fin" -> Zero
      [] b.k = "fin" -> Inf(Sign(a) * (IF Sign(b) < 0 THEN -1 ELSE 1))
      [] OTHER -> NaN

\* a < b on floats; false when either is NaN
Less(a, b) ==
    CASE a.k \notin {"fin", "ninf", "pinf"} \/ b.k \notin {"fin", "ninf", "pinf"} -> FALSE
      [] a.k = "fin" /\ b.k = "fin" -> a.n * b.d < b.n * a.d
      [] a.k = "ninf" -> b.k # "ninf"
      [] a.k = "pinf" -> FALSE
      [] OTHER -> b.k = "pinf"

Leq(a, b) == Less(a, b) \/ (a = b /\ ~IsNaN(a) /\ a.k # "uninit")

\* tl.maximum / the combine of tl.max with the default propagate_nan=NONE:
\* a NaN operand is dropped (maxnum)
Maximum(a, b) ==
    CASE IsNaN(a) -> b
      [] IsNaN(b) -> a
      [] OTHER -> IF Less(a, b) THEN b ELSE a

\* tl.exp.  The inputs are integers, so every finite argument is an integer.
Exp(a) ==
    CASE a.k = "ninf" -> Zero
      [] a.k = "pinf" -> PosInf
      [] a.k = "fin" ->
            LET e == a.n \div a.d
            IN IF e < -ExpRange THEN Zero
               ELSE IF e > ExpRange THEN PosInf
               ELSE IF e >= 0 THEN Fin(2 ^ e, 1)
               ELSE Fin(1, 2 ^ (-e))
      [] OTHER -> NaN

\* ------------------------------------------------------------- state
VARIABLES
    n_rows,       \* rows of the tensor = programs of the launch grid
    n_cols,       \* row length n
    row_stride,   \* x.stride(0)
    BLOCK_SIZE,   \* chunk size c
    in_mem,       \* memory at in_ptr, by element offset
    out_mem,      \* memory at output_ptr, by element offset
    pc,           \* per program: "acc" (first loop), "emit" (second loop), "done"
    offset,       \* per program: the loop variable of the current loop
    in_max,       \* per program: running maximum
    in_exp_sum,   \* per program: running sum
    store_count,  \* history: number of tl.store writes per output offset
    exp_args,     \* history: arguments of the tl.exp evaluations that reached the result
    load_count,   \* history: per program, number of tl.load reads per input offset
    writers,      \* history: per output offset, the programs that stored to it
    kernel,       \* the kernel launched: "v1", "naive", "fused", "add", or "none"
    num_programs, \* size of the launch grid
    row_idx,      \* per program: the row it works on
    rows_done,    \* history: per program, the rows it has processed, in order
    chunks,       \* history: per program, <<loop, offset>> of each chunk evaluated
    y_mem,        \* add_kernel: memory at y_ptr
    n_elements,   \* add_kernel: size of the vectors
    num_epochs,          \* config.num_epochs
    n_batches,           \* len(train_dataloader)
    save_image_epochs,   \* config.save_image_epochs
    save_model_epochs,   \* config.save_model_epochs
    tpc,                 \* train_loop: position in the loop body
    epoch,               \* train_loop: loop variable of the epoch loop
    step,                \* train_loop: loop variable of the batch loop
    global_step,         \* train_loop: global_step
    opt_steps,           \* history: calls of optimizer.step
    sched_steps,         \* history: calls of lr_scheduler.step
    eval_log,            \* history: <<epoch, global_step>> of each evaluate call
    save_log,            \* history: <<epoch, global_step>> of each save_pretrained call
    properties,          \* fused-softmax cell: driver.active.utils.get_device_properties(...)
    target,              \* fused-softmax cell: get_current_target(), backend and arch
    ns,                  \* fused-softmax cell: the names assigned so far, with their values
    opc,                 \* fused-softmax cell: position in the cell
    err                  \* fused-softmax cell: the exception raised, or "none"

\* the variables of train_loop
train_vars == <<num_epochs, n_batches, save_image_epochs, save_model_epochs, tpc,
                epoch, step, global_step, opt_steps, sched_steps, eval_log, save_log>>

\* the variables of the occupancy computation of the fused-softmax cell
occ_vars == <<properties, target, ns, opc, err>>

\* the launch parameters and input memory of a kernel
launch_vars == <<n_rows, n_cols, row_stride, BLOCK_SIZE, in_mem, kernel, num_programs,
                 y_mem, n_elements>>

vars == <<n_rows, n_cols, row_stride, BLOCK_SIZE, in_mem, out_mem, pc, offset,
          in_max, in_exp_sum, store_count, exp_args, load_count, writers, kernel,
          num_programs, row_idx, rows_done, chunks, y_mem, n_elements, train_vars,
          properties, target, ns, opc, err>>

\* largest chunk size explored: one more than the longest row
MaxBlock == MaxLen + 1
\* element offsets modelled: the tensor and the lanes a last chunk reaches past it
MemSize == 3 * (MaxLen + 1) + 2 * MaxLen
Addrs == 0 .. (MemSize - 1)

\* finite row entries; 1000 is far outside the exponent range of the others
Values == {Fin(0, 1), Fin(1, 1), Fin(2, 1), Fin(1000, 1)}
\* row entries including the IEEE special values a float tensor can hold
SpecialValues == {Fin(0, 1), Fin(2, 1), NegInf, NaN}

\* ------------------------------------------------------------- kernel
\* tl.arange(0, BLOCK_SIZE)
Lanes(B) == 0 .. (B - 1)

\* faulty variant: the mask left out: every lane counts as in range
ColMaskAll(off, n, B) == [l \in Lanes(B) |-> TRUE]

\* col_mask = col_range + offset < n_cols
ColMask(off, n, B) == [l \in Lanes(B) |-> l + off < n]

\* tl.load(in_ptr + pid * row_stride + col_range + offset, mask=col_mask, other=other)
Load(mem, base, off, mask, other) ==
    [l \in DOMAIN mask |-> IF mask[l] THEN mem[base + l + off] ELSE other]

\* tl.max(v, axis=-1) over lanes 0..hi
RECURSIVE MaxUpTo(_, _)
MaxUpTo(v, hi) == IF hi = 0 THEN v[0] ELSE Maximum(MaxUpTo(v, hi - 1), v[hi])
TlMax(v) == MaxUpTo(v, Cardinality(DOMAIN v) - 1)

\* tl.sum(v, axis=-1) over lanes 0..hi
RECURSIVE SumUpTo(_, _)
SumUpTo(v, hi) == IF hi = 0 THEN v[0] ELSE Add(SumUpTo(v, hi - 1), v[hi])
TlSum(v) == SumUpTo(v, Cardinality(DOMAIN v) - 1)

\* faulty variant: the chunk maximum taken for the new maximum, the running one dropped
InMaxNewChunkOnly(m, in_data) == TlMax(in_data)

\* in_max_new = tl.maximum(in_max, tl.max(in_data, axis=-1))
InMaxNew(m, in_data) == Maximum(m, TlMax(in_data))

\* faulty variant: the prior sum carried over without the rescale factor
InExpSumNoRescale(s, m, m_new, in_data) ==
    Add(s, TlSum([l \in DOMAIN in_data |-> Exp(Sub(in_data[l], m_new))]))

\* in_exp_sum * tl.exp(in_max - in_max_new) + tl.sum(tl.exp(in_data - in_max_new), axis=-1)
InExpSumNew(s, m, m_new, in_data) ==
    Add(Mul(s, Exp(Sub(m, m_new))),
        TlSum([l \in DOMAIN in_data |-> Exp(Sub(in_data[l], m_new))]))

\* faulty variant: the numerator exponentiated without subtracting the maximum
SoftmaxOutNoMax(in_data, m, s) ==
    [l \in DOMAIN in_data |-> Div(Exp(in_data[l]), s)]

\* in_exp / in_exp_sum with in_exp = tl.exp(in_data - in_max)
SoftmaxOut(in_data, m, s) ==
    [l \in DOMAIN in_data |-> Div(Exp(Sub(in_data[l], m)), s)]

\* tl.store(output_ptr + pid * row_stride + col_range + offset, val, mask=col_mask)
Store(mem, base, off, val, mask) ==
    [a \in DOMAIN mem |->
        IF \E l \in DOMAIN mask : mask[l] /\ a = base + l + off
        THEN val[a - base - off] ELSE mem[a]]

\* the offsets one tl.store writes
Stored(base, off, mask) == {base + l + off : l \in {k \in DOMAIN mask : mask[k]}}

\* faulty variant: the loop goes on only while a full chunk is left
LoopFullChunksOnly(off, n, B) == off + 2 * B <= n

\* faulty variant: the range includes its end, range(0, n_cols + 1, BLOCK_SIZE)
LoopInclusiveEnd(off, n, B) == off + B <= n

\* for offset in range(0, n_cols, BLOCK_SIZE): after the iteration at `off`
\* there is another one
LoopContinues(off, n, B) == off + B < n

\* the offsets one tl.load reads
Loaded(base, off, mask) == {base + l + off : l \in {k \in DOMAIN mask : mask[k]}}

\* load_count after program pid has read the offsets in `read`
CountLoads(lc, pid, read) ==
    [lc EXCEPT ![pid] = [a \in DOMAIN @ |-> IF a \in read THEN @[a] + 1 ELSE @[a]]]

\* writers after program pid has stored to the offsets in `written`
AddWriter(w, pid, written) ==
    [a \in DOMAIN w |-> IF a \in written THEN w[a] \cup {pid} ELSE w[a]]

\* the tl.exp arguments of one iteration of the first loop (rescale, valid lanes)
AccExpArgs(m, m_new, in_data, mask) ==
    {Sub(m, m_new)} \cup {Sub(in_data[l], m_new) : l \in {k \in DOMAIN mask : mask[k]}}

\* the tl.exp arguments of one iteration of the second loop (valid lanes)
EmitExpArgs(m, in_data, mask) ==
    {Sub(in_data[l], m) : l \in {k \in DOMAIN mask : mask[k]}}

\* one iteration of the first loop of softmax_kernel_v1 by program pid
Accumulate(pid) ==
    /\ pc[pid] = "acc"
    /\ offset[pid] < n_cols
    /\ chunks' = [chunks EXCEPT ![pid] = Append(@, <<pc[pid], offset[pid]>>)]
    /\ LET mask == ColMask(offset[pid], n_cols, BLOCK_SIZE)
           in_data == Load(in_mem, pid * row_stride, offset[pid], mask, NegInf)
           in_max_new == InMaxNew(in_max[pid], in_data)
       IN /\ in_exp_sum' = [in_exp_sum EXCEPT ![pid] =
                               InExpSumNew(in_exp_sum[pid], in_max[pid], in_max_new, in_data)]
          /\ in_max' = [in_max EXCEPT ![pid] = in_max_new]
          /\ exp_args' = [exp_args EXCEPT ![pid] =
                               @ \cup AccExpArgs(in_max[pid], in_max_new, in_data, mask)]
          /\ load_count' = CountLoads(load_count, pid,
                                      Loaded(pid * row_stride, offset[pid], mask))
    /\ IF LoopContinues(offset[pid], n_cols, BLOCK_SIZE)
       THEN /\ offset' = [offset EXCEPT ![pid] = @ + BLOCK_SIZE]
            /\ pc' = pc
       ELSE /\ offset' = [offset EXCEPT ![pid] = 0]
            /\ pc' = [pc EXCEPT ![pid] = "emit"]
    /\ UNCHANGED <<launch_vars, out_mem, store_count, writers, row_idx, rows_done,
                   train_vars, occ_vars>>

\* one iteration of the second loop of softmax_kernel_v1 by program pid; the
\* load has no `other`, so a masked-off lane holds an undefined value u
Emit(pid) ==
    /\ pc[pid] = "emit"
    /\ offset[pid] < n_cols
    /\ chunks' = [chunks EXCEPT ![pid] = Append(@, <<pc[pid], offset[pid]>>)]
    /\ \E u \in Values :
         LET mask == ColMask(offset[pid], n_cols, BLOCK_SIZE)
             in_data == Load(in_mem, pid * row_stride, offset[pid], mask, u)
             val == SoftmaxOut(in_data, in_max[pid], in_exp_sum[pid])
         IN /\ out_mem' = Store(out_mem, pid * row_stride, offset[pid], val, mask)
            /\ store_count' = [a \in Addrs |->
                                 IF a \in Stored(pid * row_stride, offset[pid], mask)
                                 THEN store_count[a] + 1 ELSE store_count[a]]
            /\ exp_args' = [exp_args EXCEPT ![pid] =
                                 @ \cup EmitExpArgs(in_max[pid], in_data, mask)]
            /\ load_count' = CountLoads(load_count, pid,
                                        Loaded(pid * row_stride, offset[pid], mask))
            /\ writers' = AddWriter(writers, pid,
                                    Stored(pid * row_stride, offset[pid], mask))
    /\ IF LoopContinues(offset[pid], n_cols, BLOCK_SIZE)
       THEN /\ offset' = [offset EXCEPT ![pid] = @ + BLOCK_SIZE]
            /\ pc' = pc
       ELSE /\ offset' = [offset EXCEPT ![pid] = 0]
            /\ pc' = [pc EXCEPT ![pid] = "done"]
    /\ UNCHANGED <<launch_vars, in_max, in_exp_sum, row_idx, rows_done, train_vars, occ_vars>>

\* the fused-softmax cell has not been run
OccIdle ==
    /\ properties = <<>> /\ target = <<>> /\ ns = <<>>
    /\ opc = "idle" /\ err = "none"

\* train_loop has not been called
TrainIdle ==
    /\ num_epochs = 0 /\ n_batches = 0
    /\ save_image_epochs = 0 /\ save_model_epochs = 0
    /\ tpc = "idle" /\ epoch = 0 /\ step = 0 /\ global_step = 0
    /\ opt_steps = 0 /\ sched_steps = 0
    /\ eval_log = {} /\ save_log = {}

\* the programs of a grid of P programs of softmax_kernel_v1 at their start,
\* the output freshly allocated, the histories empty
ProgramsStartV1(P) ==
    /\ kernel = "v1"
    /\ num_programs = P
    /\ out_mem = [a \in Addrs |-> Uninit]
    /\ pc = [p \in 0 .. (P - 1) |-> "acc"]
    /\ offset = [p \in 0 .. (P - 1) |-> 0]
    /\ in_max = [p \in 0 .. (P - 1) |-> NegInf]
    /\ in_exp_sum = [p \in 0 .. (P - 1) |-> Zero]
    /\ row_idx = [p \in 0 .. (P - 1) |-> p]
    /\ rows_done = [p \in 0 .. (P - 1) |-> <<>>]
    /\ chunks = [p \in 0 .. (P - 1) |-> <<>>]
    /\ store_count = [a \in Addrs |-> 0]
    /\ exp_args = [p \in 0 .. (P - 1) |-> {}]
    /\ load_count = [p \in 0 .. (P - 1) |-> [a \in Addrs |-> 0]]
    /\ writers = [a \in Addrs |-> {}]
    /\ y_mem = <<>> /\ n_elements = 0

\* the launch softmax_kernel_v1[(n_rows,)](x, output, x.stride(0), n_cols, BLOCK_SIZE)
\* of a tensor of one row of n entries drawn from vals; the offsets past the
\* tensor hold an arbitrary value g
Launch(vals) ==
    /\ n_rows = 1
    /\ n_cols \in 1 .. MaxLen
    /\ row_stride = n_cols
    /\ BLOCK_SIZE \in 1 .. MaxBlock
    /\ \E r \in [0 .. (n_cols - 1) -> vals], g \in vals :
          in_mem = [a \in Addrs |-> IF a < n_cols THEN r[a] ELSE g]
    /\ ProgramsStartV1(n_rows)
    /\ TrainIdle
    /\ OccIdle

Init == Launch(Values)

InitSpecial == Launch(SpecialValues)

Next ==
    \/ \E pid \in 0 .. (n_rows - 1) : Accumulate(pid)
    \/ \E pid \in 0 .. (n_rows - 1) : Emit(pid)

\* rows of finite numbers (the input contract)
Spec == Init /\ [][Next]_vars

\* rows that may hold -inf and NaN
SpecSpecial == InitSpecial /\ [][Next]_vars

\* row entries of the two-row tensor
GridValues == {Fin(0, 1), Fin(2, 1)}

\* the launch softmax_kernel_v1[(n_rows,)](...) of a tensor of two rows, one
\* program per row, row_stride >= n_cols; the offsets that belong to no row
\* hold 1000
InitGrid ==
    /\ n_rows = 2
    /\ n_cols \in 1 .. MaxLen
    /\ row_stride \in {n_cols, n_cols + 1}
    /\ BLOCK_SIZE \in 1 .. MaxBlock
    /\ \E x \in [0 .. (n_rows - 1) -> [0 .. (n_cols - 1) -> GridValues]] :
          in_mem = [a \in Addrs |->
                       IF a < n_rows * row_stride /\ a % row_stride < n_cols
                       THEN x[a \div row_stride][a % row_stride]
                       ELSE Fin(1000, 1)]
    /\ ProgramsStartV1(n_rows)
    /\ TrainIdle
    /\ OccIdle

\* the programs of the grid run concurrently: Next interleaves their iterations
SpecGrid == InitGrid /\ [][Next]_vars

\* ------------------------------------------------------ fused kernel
\* int.bit_length
RECURSIVE BitLength(_)
BitLength(k) == IF k = 0 THEN 0 ELSE 1 + BitLength(k \div 2)

\* faulty variant: the largest power of two that is <= n
PrevPowerOf2(n) == 2 ^ (BitLength(n) - 1)

\* triton.next_power_of_2(n), n >= 1: the smallest power of two >= n
NextPowerOf2(n) == 2 ^ BitLength(n - 1)

\* numerator / denominator of softmax_kernel for the loaded row
FusedSoftmax(row) ==
    LET row_max == TlMax(row)
        numerator == [l \in DOMAIN row |-> Exp(Sub(row[l], row_max))]
        denominator == TlSum(numerator)
    IN [l \in DOMAIN row |-> Div(numerator[l], denominator)]

\* faulty variant: the next row is the one after, whatever the grid size
NextRowAdjacent(r, P) == r + 1

\* tl.range(row_start, n_rows, row_step): the row after r for a grid of P programs
NextRow(r, P) == r + P

\* one iteration of the row loop of softmax_kernel by program p
FusedRow(p) ==
    /\ kernel = "fused"
    /\ pc[p] = "row"
    /\ row_idx[p] < n_rows
    /\ LET base == row_idx[p] * row_stride
           mask == ColMask(0, n_cols, BLOCK_SIZE)
           row == Load(in_mem, base, 0, mask, NegInf)
           softmax_output == FusedSoftmax(row)
       IN /\ out_mem' = Store(out_mem, base, 0, softmax_output, mask)
          /\ store_count' = [a \in Addrs |->
                               IF a \in Stored(base, 0, mask)
                               THEN store_count[a] + 1 ELSE store_count[a]]
          /\ writers' = AddWriter(writers, p, Stored(base, 0, mask))
          /\ load_count' = CountLoads(load_count, p, Loaded(base, 0, mask))
    /\ rows_done' = [rows_done EXCEPT ![p] = Append(@, row_idx[p])]
    /\ row_idx' = [row_idx EXCEPT ![p] = NextRow(@, num_programs)]
    /\ pc' = [pc EXCEPT ![p] =
                 IF NextRow(row_idx[p], num_programs) < n_rows THEN "row" ELSE "done"]
    /\ UNCHANGED <<launch_vars, offset, in_max, in_exp_sum, exp_args, chunks, train_vars, occ_vars>>

\* the launch kernel[(num_programs, 1, 1)](y, x, x.stride(0), y.stride(0), n_rows,
\* n_cols, BLOCK_SIZE, num_stages) with BLOCK_SIZE = triton.next_power_of_2(n_cols)
\* and 1 <= num_programs <= n_rows; x and y are contiguous and of the same
\* shape, so both strides are n_cols; row r of x is a rotation by r of a row
\* drawn from Values
InitFused ==
    /\ kernel = "fused"
    /\ n_rows \in 1 .. MaxRows
    /\ num_programs \in 1 .. n_rows
    /\ n_cols \in 1 .. MaxLen
    /\ row_stride = n_cols
    /\ BLOCK_SIZE = NextPowerOf2(n_cols)
    /\ \E b \in [0 .. (n_cols - 1) -> Values] :
          in_mem = [a \in Addrs |->
                       IF a < n_rows * row_stride
                       THEN b[((a % row_stride) + (a \div row_stride)) % n_cols]
                       ELSE Fin(1000, 1)]
    /\ out_mem = [a \in Addrs |-> Uninit]
    /\ pc = [p \in 0 .. (num_programs - 1) |-> "row"]
    /\ row_idx = [p \in 0 .. (num_programs - 1) |-> p]
    /\ rows_done = [p \in 0 .. (num_programs - 1) |-> <<>>]
    /\ chunks = [p \in 0 .. (num_programs - 1) |-> <<>>]
    /\ offset = [p \in 0 .. (num_programs - 1) |-> 0]
    /\ in_max = [p \in 0 .. (num_programs - 1) |-> NegInf]
    /\ in_exp_sum = [p \in 0 .. (num_programs - 1) |-> Zero]
    /\ store_count = [a \in Addrs |-> 0]
    /\ exp_args = [p \in 0 .. (num_programs - 1) |-> {}]
    /\ load_count = [p \in 0 .. (num_programs - 1) |-> [a \in Addrs |-> 0]]
    /\ writers = [a \in Addrs |-> {}]
    /\ y_mem = <<>> /\ n_elements = 0
    /\ TrainIdle
    /\ OccIdle

NextFused == \E p \in 0 .. (num_programs - 1) : FusedRow(p)

\* the persistent programs of the fused kernel run concurrently
SpecFused == InitFused /\ [][NextFused]_vars

\* ------------------------------------------------------ vector add
\* entries of x and of y
AddXValues == {Fin(0, 1), Fin(1, 1)}
AddYValues == {Fin(0, 1), Fin(2, 1)}

\* faulty variant: the quotient rounded down
CdivFloor(a, b) == a \div b

\* triton.cdiv(a, b)
Cdiv(a, b) == (a + b - 1) \div b

\* mask = offsets < n_elements with offsets = block_start + tl.arange(0, BLOCK_SIZE)
AddMask(block_start, n, B) == [l \in Lanes(B) |-> block_start + l < n]

\* output = x + y
AddLanes(x, y) == [l \in DOMAIN x |-> Add(x[l], y[l])]

\* add_kernel run by program pid; the loads have no `other`, so a masked-off
\* lane holds an undefined value u
AddBlock(pid) ==
    /\ kernel = "add"
    /\ pc[pid] = "add"
    /\ \E u \in AddXValues :
         LET block_start == pid * BLOCK_SIZE
             mask == AddMask(block_start, n_elements, BLOCK_SIZE)
             x == Load(in_mem, 0, block_start, mask, u)
             y == Load(y_mem, 0, block_start, mask, u)
             output == AddLanes(x, y)
         IN /\ out_mem' = Store(out_mem, 0, block_start, output, mask)
            /\ store_count' = [a \in Addrs |->
                                 IF a \in Stored(0, block_start, mask)
                                 THEN store_count[a] + 1 ELSE store_count[a]]
            /\ writers' = AddWriter(writers, pid, Stored(0, block_start, mask))
            /\ load_count' = CountLoads(load_count, pid, Loaded(0, block_start, mask))
    /\ pc' = [pc EXCEPT ![pid] = "done"]
    /\ UNCHANGED <<launch_vars, offset, in_max, in_exp_sum, exp_args, row_idx,
                   rows_done, chunks, train_vars, occ_vars>>

\* add(x, y): output = torch.empty_like(x) and the launch of
\* triton.cdiv(n_elements, BLOCK_SIZE) programs of add_kernel; the offsets past
\* the vectors hold 1000
InitAdd ==
    /\ kernel = "add"
    /\ n_elements \in 1 .. MaxLen
    /\ BLOCK_SIZE \in 1 .. MaxBlock
    /\ num_programs = Cdiv(n_elements, BLOCK_SIZE)
    /\ n_rows = 1 /\ n_cols = n_elements /\ row_stride = n_elements
    /\ \E x \in [0 .. (n_elements - 1) -> AddXValues] :
          in_mem = [a \in Addrs |-> IF a < n_elements THEN x[a] ELSE Fin(1000, 1)]
    /\ \E y \in [0 .. (n_elements - 1) -> AddYValues] :
          y_mem = [a \in Addrs |-> IF a < n_elements THEN y[a] ELSE Fin(1000, 1)]
    /\ out_mem = [a \in Addrs |-> Uninit]
    /\ pc = [p \in 0 .. (num_programs - 1) |-> "add"]
    /\ row_idx = [p \in 0 .. (num_programs - 1) |-> 0]
    /\ rows_done = [p \in 0 .. (num_programs - 1) |-> <<>>]
    /\ chunks = [p \in 0 .. (num_programs - 1) |-> <<>>]
    /\ offset = [p \in 0 .. (num_programs - 1) |-> 0]
    /\ in_max = [p \in 0 .. (num_programs - 1) |-> NegInf]
    /\ in_exp_sum = [p \in 0 .. (num_programs - 1) |-> Zero]
    /\ store_count = [a \in Addrs |-> 0]
    /\ exp_args = [p \in 0 .. (num_programs - 1) |-> {}]
    /\ load_count = [p \in 0 .. (num_programs - 1) |-> [a \in Addrs |-> 0]]
    /\ writers = [a \in Addrs |-> {}]
    /\ TrainIdle
    /\ OccIdle

NextAdd == \E pid \in 0 .. (num_programs - 1) : AddBlock(pid)

\* the programs of add_kernel run concurrently
SpecAdd == InitAdd /\ [][NextAdd]_vars

\* ------------------------------------------------------------- train_loop
\* no kernel has been launched
KernelIdle ==
    /\ kernel = "none"
    /\ n_rows = 0 /\ n_cols = 0 /\ row_stride = 0 /\ BLOCK_SIZE = 0
    /\ num_programs = 0 /\ n_elements = 0
    /\ in_mem = <<>> /\ out_mem = <<>> /\ y_mem = <<>>
    /\ pc = <<>> /\ offset = <<>> /\ in_max = <<>> /\ in_exp_sum = <<>>
    /\ row_idx = <<>> /\ rows_done = <<>> /\ chunks = <<>>
    /\ store_count = <<>> /\ exp_args = <<>> /\ load_count = <<>> /\ writers = <<>>

kernel_vars == <<launch_vars, out_mem, pc, offset, in_max, in_exp_sum, store_count,
                 exp_args, load_count, writers, row_idx, rows_done, chunks>>

\* faulty variant: no sample grid or checkpoint for the final epoch as such
SaveDueIntervalOnly(e, interval, n) == (e + 1) % interval = 0

\* (epoch + 1) % config.save_..._epochs == 0 or epoch == config.num_epochs - 1
SaveDue(e, interval, n) == (e + 1) % interval = 0 \/ e = n - 1

\* faulty variant: the batch loop stops one batch early
MoreBatchesOffByOne(i, n) == i + 1 < n - 1

\* for step, batch in enumerate(train_dataloader): after batch i of n there
\* is another one
MoreBatches(i, n) == i + 1 < n

\* num_training_steps, the length the cosine schedule was built with
NumTrainingSteps == n_batches * num_epochs

\* forward pass, loss.backward() and gradient clipping of the current batch
TrainForward ==
    /\ tpc = "fwd"
    /\ tpc' = "opt"
    /\ UNCHANGED <<num_epochs, n_batches, save_image_epochs, save_model_epochs, epoch,
                   step, global_step, opt_steps, sched_steps, eval_log, save_log>>
    /\ UNCHANGED <<kernel_vars, occ_vars>>

\* optimizer.step()
OptimizerStep ==
    /\ tpc = "opt"
    /\ opt_steps' = opt_steps + 1
    /\ tpc' = "sched"
    /\ UNCHANGED <<num_epochs, n_batches, save_image_epochs, save_model_epochs, epoch,
                   step, global_step, sched_steps, eval_log, save_log>>
    /\ UNCHANGED <<kernel_vars, occ_vars>>

\* lr_scheduler.step() and optimizer.zero_grad()
SchedulerStep ==
    /\ tpc = "sched"
    /\ sched_steps' = sched_steps + 1
    /\ tpc' = "count"
    /\ UNCHANGED <<num_epochs, n_batches, save_image_epochs, save_model_epochs, epoch,
                   step, global_step, opt_steps, eval_log, save_log>>
    /\ UNCHANGED <<kernel_vars, occ_vars>>

\* global_step += 1, the logging, and the step of the batch loop
CountStep ==
    /\ tpc = "count"
    /\ global_step' = global_step + 1
    /\ IF MoreBatches(step, n_batches)
       THEN step' = step + 1 /\ tpc' = "fwd"
       ELSE step' = step /\ tpc' = "eval"
    /\ UNCHANGED <<num_epochs, n_batches, save_image_epochs, save_model_epochs, epoch,
                   opt_steps, sched_steps, eval_log, save_log>>
    /\ UNCHANGED <<kernel_vars, occ_vars>>

\* the end of an epoch: evaluate(config, epoch, pipeline) if it is due
EvaluateStep ==
    /\ tpc = "eval"
    /\ eval_log' = IF SaveDue(epoch, save_image_epochs, num_epochs)
                   THEN eval_log \cup {<<epoch, global_step>>} ELSE eval_log
    /\ tpc' = "save"
    /\ UNCHANGED <<num_epochs, n_batches, save_image_epochs, save_model_epochs, epoch,
                   step, global_step, opt_steps, sched_steps, save_log>>
    /\ UNCHANGED <<kernel_vars, occ_vars>>

\* pipeline.save_pretrained(config.output_dir) if it is due, and the step of
\* the epoch loop
SaveStep ==
    /\ tpc = "save"
    /\ save_log' = IF SaveDue(epoch, save_model_epochs, num_epochs)
                   THEN save_log \cup {<<epoch, global_step>>} ELSE save_log
    /\ IF epoch + 1 < num_epochs
       THEN epoch' = epoch + 1 /\ step' = 0 /\ tpc' = "fwd"
       ELSE epoch' = epoch /\ step' = step /\ tpc' = "done"
    /\ UNCHANGED <<num_epochs, n_batches, save_image_epochs, save_model_epochs,
                   global_step, opt_steps, sched_steps, eval_log>>
    /\ UNCHANGED <<kernel_vars, occ_vars>>

\* train_loop called on a dataloader of n_batches >= 1 batches with positive
\* save intervals; with num_epochs = 0 the epoch loop has no iteration
InitTrain ==
    /\ KernelIdle
    /\ OccIdle
    /\ num_epochs \in 0 .. MaxEpochs
    /\ n_batches \in 1 .. MaxBatches
    /\ save_image_epochs \in 1 .. MaxInterval
    /\ save_model_epochs \in 1 .. MaxInterval
    /\ tpc = IF num_epochs = 0 THEN "done" ELSE "fwd"
    /\ epoch = 0 /\ step = 0 /\ global_step = 0
    /\ opt_steps = 0 /\ sched_steps = 0
    /\ eval_log = {} /\ save_log = {}

NextTrain ==
    \/ TrainForward
    \/ OptimizerStep
    \/ SchedulerStep
    \/ CountStep
    \/ EvaluateStep
    \/ SaveStep

SpecTrain == InitTrain /\ [][NextTrain]_vars

\* ------------------------------------------------- the fused-softmax cell
\* num_warps = 8
num_warps == 8

\* the targets explored: HIP with a CDNA architecture, HIP with another
\* architecture, a backend other than HIP
Targets ==
    {[backend |-> "hip", arch |-> "gfx942"],
     [backend |-> "hip", arch |-> "gfx1100"],
     [backend |-> "cuda", arch |-> "90"]}

is_hip == target.backend = "hip"

is_cdna == is_hip /\ target.arch \in {"gfx940", "gfx941", "gfx942", "gfx90a", "gfx908"}

\* the register and thread counts explored
RegVals == {1} \cup {num_warps * k : k \in 1 .. MaxUnits}

\* the namespace after `name = v`
Assign(env, name, v) ==
    [x \in DOMAIN env \cup {name} |-> IF x = name THEN v ELSE env[x]]

\* every name of `names` has been assigned
Bound(names) == names \subseteq DOMAIN ns

Min(a, b) == IF a <= b THEN a ELSE b

\* the statement raises: the cell stops there
Raise(e) ==
    /\ err' = e /\ opc' = "error"
    /\ UNCHANGED <<ns, properties, target>>

\* if is_hip():
OccIsHip ==
    /\ opc = "if_hip"
    /\ opc' = IF is_hip THEN "if_cdna" ELSE "else"
    /\ UNCHANGED <<ns, err, properties, target, kernel_vars, train_vars>>

\* if is_cdna(): NUM_GPRS = NUM_REGS * 2
OccIsCdna ==
    /\ opc = "if_cdna"
    /\ ns' = IF is_cdna THEN Assign(ns, "NUM_GPRS", ns["NUM_REGS"] * 2) ELSE ns
    /\ opc' = "waves"
    /\ UNCHANGED <<err, properties, target, kernel_vars, train_vars>>

\* MAX_NUM_THREADS = properties["max_threads_per_sm"]
\* max_num_waves = MAX_NUM_THREADS // WARP_SIZE
OccWaves ==
    /\ opc = "waves"
    /\ IF ns["WARP_SIZE"] = 0
       THEN Raise("ZeroDivisionError")
       ELSE /\ ns' = Assign(Assign(ns, "MAX_NUM_THREADS", properties.max_threads_per_sm),
                            "max_num_waves",
                            properties.max_threads_per_sm \div ns["WARP_SIZE"])
            /\ opc' = "occ_hip"
            /\ UNCHANGED <<err, properties, target>>
    /\ UNCHANGED <<kernel_vars, train_vars>>

\* occupancy = min(NUM_GPRS // WARP_SIZE // n_regs, max_num_waves) // num_warps
OccHip ==
    /\ opc = "occ_hip"
    /\ IF ~Bound({"NUM_GPRS", "WARP_SIZE", "n_regs", "max_num_waves", "num_warps"})
       THEN Raise("NameError")
       ELSE IF ns["WARP_SIZE"] = 0 \/ ns["n_regs"] = 0 \/ ns["num_warps"] = 0
       THEN Raise("ZeroDivisionError")
       ELSE /\ ns' = Assign(ns, "occupancy",
                       Min((ns["NUM_GPRS"] \div ns["WARP_SIZE"]) \div ns["n_regs"],
                           ns["max_num_waves"]) \div ns["num_warps"])
            /\ opc' = "smem"
            /\ UNCHANGED <<err, properties, target>>
    /\ UNCHANGED <<kernel_vars, train_vars>>

\* else: occupancy = NUM_REGS // (n_regs * WARP_SIZE * num_warps)
OccElse ==
    /\ opc = "else"
    /\ IF ~Bound({"NUM_REGS", "n_regs", "WARP_SIZE", "num_warps"})
       THEN Raise("NameError")
       ELSE IF ns["n_regs"] * ns["WARP_SIZE"] * ns["num_warps"] = 0
       THEN Raise("ZeroDivisionError")
       ELSE /\ ns' = Assign(ns, "occupancy",
                       ns["NUM_REGS"] \div (ns["n_regs"] * ns["WARP_SIZE"] * ns["num_warps"]))
            /\ opc' = "smem"
            /\ UNCHANGED <<err, properties, target>>
    /\ UNCHANGED <<kernel_vars, train_vars>>

\* occupancy = min(occupancy, SIZE_SMEM // size_smem)
OccSmem ==
    /\ opc = "smem"
    /\ IF ~Bound({"occupancy", "SIZE_SMEM", "size_smem"})
       THEN Raise("NameError")
       ELSE IF ns["size_smem"] = 0
       THEN Raise("ZeroDivisionError")
       ELSE /\ ns' = Assign(ns, "occupancy",
                       Min(ns["occupancy"], ns["SIZE_SMEM"] \div ns["size_smem"]))
            /\ opc' = "programs"
            /\ UNCHANGED <<err, properties, target>>
    /\ UNCHANGED <<kernel_vars, train_vars>>

\* num_programs = NUM_SM * occupancy; num_programs = min(num_programs, n_rows)
OccPrograms ==
    /\ opc = "programs"
    /\ IF ~Bound({"NUM_SM", "occupancy"})
       THEN Raise("NameError")
       ELSE /\ ns' = Assign(ns, "num_programs",
                            Min(ns["NUM_SM"] * ns["occupancy"], n_rows))
            /\ opc' = "launch"
            /\ UNCHANGED <<err, properties, target>>
    /\ UNCHANGED <<kernel_vars, train_vars>>

\* kernel[(num_programs, 1, 1)](y, x, ...): the programs of the grid start; a
\* grid of no program starts none
OccLaunch ==
    /\ opc = "launch"
    /\ kernel' = "fused"
    /\ num_programs' = ns["num_programs"]
    /\ LET P == ns["num_programs"]
       IN /\ pc' = [p \in 0 .. (P - 1) |-> IF p < n_rows THEN "row" ELSE "done"]
          /\ row_idx' = [p \in 0 .. (P - 1) |-> p]
          /\ rows_done' = [p \in 0 .. (P - 1) |-> <<>>]
          /\ chunks' = [p \in 0 .. (P - 1) |-> <<>>]
          /\ offset' = [p \in 0 .. (P - 1) |-> 0]
          /\ in_max' = [p \in 0 .. (P - 1) |-> NegInf]
          /\ in_exp_sum' = [p \in 0 .. (P - 1) |-> Zero]
          /\ exp_args' = [p \in 0 .. (P - 1) |-> {}]
          /\ load_count' = [p \in 0 .. (P - 1) |-> [a \in Addrs |-> 0]]
    /\ opc' = "launched"
    /\ UNCHANGED <<n_rows, n_cols, row_stride, BLOCK_SIZE, in_mem, y_mem, n_elements,
                   out_mem, store_count, writers, ns, err, properties, target,
                   train_vars>>

\* the cell up to the occupancy computation: the device properties, the
\* tensor x of n_rows rows, y = torch.empty_like(x), BLOCK_SIZE, num_warps, and
\* the register and shared-memory use of the pre-compiled kernel
InitOccupancy ==
    /\ properties \in [multiprocessor_count : 1 .. MaxProp,
                       max_num_regs : RegVals,
                       max_shared_mem : 1 .. MaxProp,
                       warpSize : 1 .. MaxProp,
                       max_threads_per_sm : RegVals]
    /\ target \in Targets
    /\ \E r \in 1 .. MaxProp, sm \in 0 .. MaxProp :
          ns = [x \in {"NUM_SM", "NUM_REGS", "SIZE_SMEM", "WARP_SIZE", "num_warps",
                       "n_regs", "size_smem"} |->
                   CASE x = "NUM_SM" -> properties.multiprocessor_count
                     [] x = "NUM_REGS" -> properties.max_num_regs
                     [] x = "SIZE_SMEM" -> properties.max_shared_mem
                     [] x = "WARP_SIZE" -> properties.warpSize
                     [] x = "num_warps" -> num_warps
                     [] x = "n_regs" -> r
                     [] x = "size_smem" -> sm]
    /\ opc = "if_hip" /\ err = "none"
    /\ kernel = "none"
    /\ n_rows \in 1 .. MaxRows
    /\ n_cols = MaxLen
    /\ row_stride = n_cols
    /\ BLOCK_SIZE = NextPowerOf2(n_cols)
    /\ in_mem = [a \in Addrs |->
                    IF a < n_rows * row_stride
                    THEN Fin(((a % row_stride) + (a \div row_stride)) % 3, 1)
                    ELSE Fin(1000, 1)]
    /\ out_mem = [a \in Addrs |-> Uninit]
    /\ store_count = [a \in Addrs |-> 0]
    /\ writers = [a \in Addrs |-> {}]
    /\ num_programs = 0
    /\ pc = <<>> /\ offset = <<>> /\ in_max = <<>> /\ in_exp_sum = <<>>
    /\ row_idx = <<>> /\ rows_done = <<>> /\ chunks = <<>>
    /\ exp_args = <<>> /\ load_count = <<>>
    /\ y_mem = <<>> /\ n_elements = 0
    /\ TrainIdle

NextOccupancy ==
    \/ OccIsHip
    \/ OccIsCdna
    \/ OccWaves
    \/ OccHip
    \/ OccElse
    \/ OccSmem
    \/ OccPrograms
    \/ OccLaunch
    \/ \E p \in 0 .. (num_programs - 1) : FusedRow(p)

\* the fused-softmax cell from the occupancy computation to the end of the
\* kernel it launches
SpecOccupancy == InitOccupancy /\ [][NextOccupancy]_vars

\* ----------------------------------------------- the kernel as a function
\* the first loop of softmax_kernel_v1 from `off` on: <<in_max, in_exp_sum>>
RECURSIVE AccumulatePass(_, _, _, _, _, _, _)
AccumulatePass(mem, base, n, B, off, m, s) ==
    IF off >= n THEN <<m, s>>
    ELSE LET in_data == Load(mem, base, off, ColMask(off, n, B), NegInf)
             m_new == InMaxNew(m, in_data)
         IN AccumulatePass(mem, base, n, B, off + B, m_new,
                           InExpSumNew(s, m, m_new, in_data))

\* the second loop of softmax_kernel_v1 from `off` on: the output memory
RECURSIVE EmitPass(_, _, _, _, _, _, _, _)
EmitPass(mem, out, base, n, B, off, m, s) ==
    IF off >= n THEN out
    ELSE LET mask == ColMask(off, n, B)
             in_data == Load(mem, base, off, mask, Uninit)
         IN EmitPass(mem, Store(out, base, off, SoftmaxOut(in_data, m, s), mask),
                     base, n, B, off + B, m, s)

\* softmax_kernel_v1 run by one program on the row at `base`, chunk size B
KernelV1(mem, base, n, B) ==
    LET ms == AccumulatePass(mem, base, n, B, 0, NegInf, Zero)
    IN EmitPass(mem, [a \in DOMAIN mem |-> Uninit], base, n, B, 0, ms[1], ms[2])

\* ------------------------------------------------------------- claims
Pids == 0 .. (n_rows - 1)
Cols == 0 .. (n_cols - 1)
Base(pid) == pid * row_stride
\* entry i of the input row / output row of program pid
In(pid, i) == in_mem[Base(pid) + i]
Out(pid, i) == out_mem[Base(pid) + i]
\* the offsets of the tensor's rows
RowAddrs == {Base(pid) + i : pid \in Pids, i \in Cols}

\* M: the maximum of the whole row
RowMaxRef(pid) ==
    CHOOSE m \in {In(pid, i) : i \in Cols} : \A j \in Cols : Leq(In(pid, j), m)

\* S: the sum over j in [0, hi] of exp(in[j] - M)
RECURSIVE ExpSumUpTo(_, _)
ExpSumUpTo(pid, hi) ==
    IF hi = 0 THEN Exp(Sub(In(pid, 0), RowMaxRef(pid)))
    ELSE Add(ExpSumUpTo(pid, hi - 1), Exp(Sub(In(pid, hi), RowMaxRef(pid))))
ExpSumRef(pid) == ExpSumUpTo(pid, n_cols - 1)

\* C1: when the online softmax has finished a row, out[i] = exp(in[i] - M) / S
\* for every i in [0, n), M the row maximum and S the sum of exp(in[j] - M).
C1_ClosedForm ==
    \A pid \in Pids : pc[pid] = "done" =>
        \A i \in Cols :
            Out(pid, i) = Div(Exp(Sub(In(pid, i), RowMaxRef(pid))), ExpSumRef(pid))

\* the row [0, 1, 2] in chunks of 2 has come out as [1/7, 2/7, 4/7]
C1_Witness ==
    /\ pc[0] = "done" /\ n_cols = 3 /\ BLOCK_SIZE = 2
    /\ In(0, 0) = Fin(0, 1) /\ In(0, 1) = Fin(1, 1) /\ In(0, 2) = Fin(2, 1)
    /\ Out(0, 0) = Fin(1, 7) /\ Out(0, 1) = Fin(2, 7) /\ Out(0, 2) = Fin(4, 7)

\* C2: the output row of a finished run is the output row the kernel gives
\* with any other chunk size c2 in 1..n, dividing n or not.
C2_ChunkingIrrelevant ==
    \A pid \in Pids : pc[pid] = "done" =>
        \A c2 \in 1 .. n_cols : \A i \in Cols :
            Out(pid, i) = KernelV1(in_mem, Base(pid), n_cols, c2)[Base(pid) + i]

\* a finished row of 3 in chunks of 2 whose maximum lies in the last chunk
C2_Witness ==
    /\ pc[0] = "done" /\ n_cols = 3 /\ BLOCK_SIZE = 2
    /\ Less(In(0, 0), In(0, 2)) /\ Less(In(0, 1), In(0, 2))

\* C3: the lanes of a chunk at column >= n add nothing to the running maximum
\* and sum (after the first loop they are M and S of the row alone, whatever
\* lies behind the row), no offset outside the row is ever stored to, no
\* offset is stored to twice, and a finished row has each entry stored once.
C3_PaddingInert ==
    /\ \A pid \in Pids : pc[pid] \in {"emit", "done"} =>
          /\ in_max[pid] = RowMaxRef(pid)
          /\ in_exp_sum[pid] = ExpSumRef(pid)
    /\ \A a \in Addrs \ RowAddrs : store_count[a] = 0 /\ out_mem[a] = Uninit
    /\ \A a \in Addrs : store_count[a] <= 1
    /\ \A pid \in Pids : pc[pid] = "done" =>
          \A i \in Cols : store_count[Base(pid) + i] = 1 /\ Out(pid, i) # Uninit

\* a finished row of 3 in chunks of 2 (last chunk half filled) with a value
\* behind the row that is larger than every entry of the row
C3_Witness ==
    /\ pc[0] = "done" /\ n_cols = 3 /\ BLOCK_SIZE = 2
    /\ \A i \in Cols : Less(In(0, i), in_mem[3])

\* C4: a row holding a NaN is rejected before any computation: the program
\* never leaves its initial state and no output offset is stored to.
C4_NaNRejected ==
    \A pid \in Pids : (\E i \in Cols : IsNaN(In(pid, i))) =>
        /\ pc[pid] = "acc" /\ offset[pid] = 0
        /\ in_max[pid] = NegInf /\ in_exp_sum[pid] = Zero
        /\ \A a \in Addrs : store_count[a] = 0

\* C5: for a row without NaN and with at least one finite entry (entries may
\* be -inf), no update leaves NaN in running_max or running_sum, and
\* running_sum is a non-zero number when the emission pass divides by it.
C5_NegInfChunkSafe ==
    \A pid \in Pids :
        ((\A i \in Cols : ~IsNaN(In(pid, i))) /\ (\E i \in Cols : IsFin(In(pid, i)))) =>
            /\ ~IsNaN(in_max[pid]) /\ ~IsNaN(in_exp_sum[pid])
            /\ pc[pid] = "emit" => (IsFin(in_exp_sum[pid]) /\ in_exp_sum[pid] # Zero)

C7_SingleElement ==
    \A pid \in Pids : (pc[pid] = "done" /\ n_cols = 1) =>
        /\ Out(pid, 0) = One
        /\ in_max[pid] = In(pid, 0)
        /\ in_exp_sum[pid] = One

\* a finished single-element row with a non-zero element and a chunk wider
\* than the row
C7_Witness ==
    /\ pc[0] = "done" /\ n_cols = 1 /\ BLOCK_SIZE > 1
    /\ In(0, 0) = Fin(2, 1) /\ Out(0, 0) = One

\* the sum of the output entries 0..hi of program pid
RECURSIVE OutSumUpTo(_, _)
OutSumUpTo(pid, hi) ==
    IF hi = 0 THEN Out(pid, 0) ELSE Add(OutSumUpTo(pid, hi - 1), Out(pid, hi))

\* C8: the entries of a finished output row sum to 1.
C8_SumsToOne ==
    \A pid \in Pids : pc[pid] = "done" => OutSumUpTo(pid, n_cols - 1) = One

\* a finished row of 3 in chunks of 2 with three different output entries
C8_Witness ==
    /\ pc[0] = "done" /\ n_cols = 3 /\ BLOCK_SIZE = 2
    /\ Out(0, 0) # Out(0, 1) /\ Out(0, 1) # Out(0, 2) /\ Out(0, 0) # Out(0, 2)
    /\ \A i \in Cols : Less(Zero, Out(0, i))

\* the constants k tried for the shift
Shifts == {-5, 1, 3}
\* the memory with k added to every entry
ShiftMem(mem, k) == [a \in DOMAIN mem |-> Add(mem[a], Fin(k, 1))]

\* C9: the output row of a finished run is the output row the kernel gives,
\* with the same chunk size, for the row with k added to every entry.
C9_ShiftInvariant ==
    \A pid \in Pids : pc[pid] = "done" =>
        \A k \in Shifts : \A i \in Cols :
            Out(pid, i) =
                KernelV1(ShiftMem(in_mem, k), Base(pid), n_cols, BLOCK_SIZE)[Base(pid) + i]

\* a finished row of 3 that is not constant, in chunks of 2
C9_Witness ==
    /\ pc[0] = "done" /\ n_cols = 3 /\ BLOCK_SIZE = 2
    /\ In(0, 0) # In(0, 1) /\ In(0, 1) # In(0, 2)

\* C10: every tl.exp argument evaluated so far (rescale factor, valid entries
\* of the first loop, valid entries of the second loop) is <= 0, so each such
\* exponential is <= 1, and neither the running sum nor an output entry is
\* +inf or NaN.
C10_Stabilised ==
    \A pid \in Pids :
        /\ \A a \in exp_args[pid] : Leq(a, Zero) /\ Leq(Exp(a), One)
        /\ IsFin(in_exp_sum[pid])
        /\ \A i \in Cols : Out(pid, i) = Uninit \/ IsFin(Out(pid, i))

\* the row [1000, 1, 1] has been finished in chunks of 1, with exp(1 - 1000)
\* among the exponentials evaluated
C10_Witness ==
    /\ pc[0] = "done" /\ n_cols = 3 /\ BLOCK_SIZE = 1
    /\ In(0, 0) = Fin(1000, 1) /\ In(0, 1) = One /\ In(0, 2) = One
    /\ Fin(-999, 1) \in exp_args[0]
    /\ Out(0, 0) = One

\* the input offsets of the row of program pid
OwnRow(pid) == {Base(pid) + i : i \in Cols}

\* C11: with one program per row, in every interleaving no output offset is
\* stored to by two programs, a program stores only to and loads only from
\* the offsets of its own row, and the output row of a finished program is the
\* one the kernel gives when it runs on that row alone.
C11_RowsIndependent ==
    /\ \A a \in Addrs : Cardinality(writers[a]) <= 1
    /\ \A pid \in Pids :
          /\ \A a \in Addrs : load_count[pid][a] > 0 => a \in OwnRow(pid)
          /\ \A a \in Addrs : pid \in writers[a] => a \in OwnRow(pid)
          /\ pc[pid] = "done" =>
                \A i \in Cols :
                    Out(pid, i) =
                        KernelV1(in_mem, Base(pid), n_cols, BLOCK_SIZE)[Base(pid) + i]

\* two different contiguous rows of 3, chunks of 2: program 1 has finished
\* its row while program 0 is still in its first loop
C11_Witness ==
    /\ n_rows = 2 /\ n_cols = 3 /\ row_stride = 3 /\ BLOCK_SIZE = 2
    /\ pc[1] = "done" /\ pc[0] = "acc" /\ offset[0] = 2
    /\ In(0, 2) # In(1, 2)
    /\ Out(1, 0) # Uninit /\ Out(0, 0) = Uninit

\* <<running_max, running_sum>> after the whole first loop over the row of pid
FinalAcc(pid) == AccumulatePass(in_mem, Base(pid), n_cols, BLOCK_SIZE, 0, NegInf, Zero)

\* C12: a program that has stored anything to its row has left the first
\* loop for good: its in_max and in_exp_sum are the ones the complete first
\* loop gives, and every entry stored so far was computed from these.
C12_AccumulateBeforeEmit ==
    \A pid \in Pids :
        (pc[pid] # "acc" \/ \E i \in Cols : store_count[Base(pid) + i] > 0) =>
            /\ pc[pid] \in {"emit", "done"}
            /\ <<in_max[pid], in_exp_sum[pid]>> = FinalAcc(pid)
            /\ \A i \in Cols : store_count[Base(pid) + i] > 0 =>
                  Out(pid, i) = Div(Exp(Sub(In(pid, i), FinalAcc(pid)[1])), FinalAcc(pid)[2])

\* a row of 3 in chunks of 1 whose maximum is its last entry, with the first
\* entry stored and the last not yet: the accumulator changed in every chunk
C12_Witness ==
    /\ n_cols = 3 /\ BLOCK_SIZE = 1 /\ pc[0] = "emit" /\ offset[0] = 1
    /\ Less(In(0, 0), In(0, 1)) /\ Less(In(0, 1), In(0, 2))
    /\ store_count[0] = 1 /\ store_count[2] = 0

\* the programs of the launch grid
Programs == 0 .. (num_programs - 1)
\* the rows some program has processed
RowsProcessed == UNION {{rows_done[p][k] : k \in 1 .. Len(rows_done[p])} : p \in Programs}
IsPowerOf2(n) == \E k \in 0 .. n : 2 ^ k = n

\* C13: the block of the fused kernel is a power of two >= n_cols, each row
\* it has processed was stored in one iteration, and the output of that row is
\* the output of the chunked online softmax for every chunk size in 1..n.
C13_FusedEqualsOnline ==
    /\ IsPowerOf2(BLOCK_SIZE) /\ BLOCK_SIZE >= n_cols
    /\ \A p \in Programs : \A k \in 1 .. Len(rows_done[p]) :
          LET base == rows_done[p][k] * row_stride
          IN \A i \in Cols :
                /\ store_count[base + i] = 1
                /\ \A c \in 1 .. n_cols :
                      out_mem[base + i] = KernelV1(in_mem, base, n_cols, c)[base + i]

\* two programs have finished three rows of 3 (block of 4, one lane masked
\* off), the first row not constant
C13_Witness ==
    /\ n_rows = 3 /\ n_cols = 3 /\ BLOCK_SIZE = 4 /\ num_programs = 2
    /\ \A p \in Programs : pc[p] = "done"
    /\ in_mem[0] # in_mem[1]
    /\ \A a \in 0 .. 8 : IsFin(out_mem[a])

\* C14: an output offset is stored to at most once and by one program only,
\* no offset >= n_elements is stored to, a stored offset i holds x[i] + y[i],
\* and when all cdiv(n_elements, BLOCK_SIZE) programs have finished every
\* offset in [0, n_elements) has been stored to.
C14_AddMatchesReference ==
    /\ \A a \in Addrs :
          /\ store_count[a] <= 1 /\ Cardinality(writers[a]) <= 1
          /\ a >= n_elements => (store_count[a] = 0 /\ out_mem[a] = Uninit)
          /\ store_count[a] > 0 => out_mem[a] = Add(in_mem[a], y_mem[a])
    /\ (\A p \in Programs : pc[p] = "done") =>
          \A i \in 0 .. (n_elements - 1) :
              store_count[i] = 1 /\ out_mem[i] = Add(in_mem[i], y_mem[i])

\* a vector of 3 added in blocks of 2 by two programs, the second half filled
C14_Witness ==
    /\ n_elements = 3 /\ BLOCK_SIZE = 2 /\ num_programs = 2
    /\ \A p \in Programs : pc[p] = "done"
    /\ in_mem[2] = Fin(1, 1) /\ y_mem[2] = Fin(2, 1) /\ out_mem[2] = Fin(3, 1)
    /\ writers[2] = {1} /\ writers[0] = {0}

\* one iteration of the first loop of softmax_kernel_naive by program pid
NaiveMax(pid) ==
    /\ kernel = "naive"
    /\ pc[pid] = "max"
    /\ offset[pid] < n_cols
    /\ chunks' = [chunks EXCEPT ![pid] = Append(@, <<pc[pid], offset[pid]>>)]
    /\ LET mask == ColMask(offset[pid], n_cols, BLOCK_SIZE)
           in_data == Load(in_mem, pid * row_stride, offset[pid], mask, NegInf)
       IN /\ in_max' = [in_max EXCEPT ![pid] = Maximum(@, TlMax(in_data))]
          /\ load_count' = CountLoads(load_count, pid,
                                      Loaded(pid * row_stride, offset[pid], mask))
    /\ IF LoopContinues(offset[pid], n_cols, BLOCK_SIZE)
       THEN /\ offset' = [offset EXCEPT ![pid] = @ + BLOCK_SIZE]
            /\ pc' = pc
       ELSE /\ offset' = [offset EXCEPT ![pid] = 0]
            /\ pc' = [pc EXCEPT ![pid] = "sum"]
    /\ UNCHANGED <<launch_vars, out_mem, in_exp_sum, store_count, exp_args, writers,
                   row_idx, rows_done, train_vars, occ_vars>>

\* one iteration of the second loop of softmax_kernel_naive by program pid
NaiveSum(pid) ==
    /\ kernel = "naive"
    /\ pc[pid] = "sum"
    /\ offset[pid] < n_cols
    /\ chunks' = [chunks EXCEPT ![pid] = Append(@, <<pc[pid], offset[pid]>>)]
    /\ LET mask == ColMask(offset[pid], n_cols, BLOCK_SIZE)
           in_data == Load(in_mem, pid * row_stride, offset[pid], mask, NegInf)
       IN /\ in_exp_sum' = [in_exp_sum EXCEPT ![pid] =
                Add(@, TlSum([l \in DOMAIN in_data |-> Exp(Sub(in_data[l], in_max[pid]))]))]
          /\ exp_args' = [exp_args EXCEPT ![pid] =
                               @ \cup EmitExpArgs(in_max[pid], in_data, mask)]
          /\ load_count' = CountLoads(load_count, pid,
                                      Loaded(pid * row_stride, offset[pid], mask))
    /\ IF LoopContinues(offset[pid], n_cols, BLOCK_SIZE)
       THEN /\ offset' = [offset EXCEPT ![pid] = @ + BLOCK_SIZE]
            /\ pc' = pc
       ELSE /\ offset' = [offset EXCEPT ![pid] = 0]
            /\ pc' = [pc EXCEPT ![pid] = "write"]
    /\ UNCHANGED <<launch_vars, out_mem, in_max, store_count, writers, row_idx,
                   rows_done, train_vars, occ_vars>>

\* one iteration of the third loop of softmax_kernel_naive by program pid; the
\* load has no `other`, so a masked-off lane holds an undefined value u
NaiveWrite(pid) ==
    /\ kernel = "naive"
    /\ pc[pid] = "write"
    /\ offset[pid] < n_cols
    /\ chunks' = [chunks EXCEPT ![pid] = Append(@, <<pc[pid], offset[pid]>>)]
    /\ \E u \in Values :
         LET mask == ColMask(offset[pid], n_cols, BLOCK_SIZE)
             in_data == Load(in_mem, pid * row_stride, offset[pid], mask, u)
             val == SoftmaxOut(in_data, in_max[pid], in_exp_sum[pid])
         IN /\ out_mem' = Store(out_mem, pid * row_stride, offset[pid], val, mask)
            /\ store_count' = [a \in Addrs |->
                                 IF a \in Stored(pid * row_stride, offset[pid], mask)
                                 THEN store_count[a] + 1 ELSE store_count[a]]
            /\ exp_args' = [exp_args EXCEPT ![pid] =
                                 @ \cup EmitExpArgs(in_max[pid], in_data, mask)]
            /\ load_count' = CountLoads(load_count, pid,
                                        Loaded(pid * row_stride, offset[pid], mask))
            /\ writers' = AddWriter(writers, pid,
                                    Stored(pid * row_stride, offset[pid], mask))
    /\ IF LoopContinues(offset[pid], n_cols, BLOCK_SIZE)
       THEN /\ offset' = [offset EXCEPT ![pid] = @ + BLOCK_SIZE]
            /\ pc' = pc
       ELSE /\ offset' = [offset EXCEPT ![pid] = 0]
            /\ pc' = [pc EXCEPT ![pid] = "done"]
    /\ UNCHANGED <<launch_vars, in_max, in_exp_sum, row_idx, rows_done, train_vars, occ_vars>>

\* the three softmax kernels of the notebook
Kernels == {"naive", "v1", "fused"}

\* where a program of kernel k starts
StartPc(k) == CASE k = "naive" -> "max" [] k = "v1" -> "acc" [] k = "fused" -> "row"

\* one of the three kernels launched on a tensor of one row of n_cols entries
\* drawn from Values: the naive and the online kernel with any BLOCK_SIZE, the
\* fused kernel with BLOCK_SIZE = triton.next_power_of_2(n_cols) and one program
InitKernels ==
    /\ kernel \in Kernels
    /\ n_rows = 1 /\ num_programs = 1
    /\ n_cols \in 1 .. MaxLen
    /\ row_stride = n_cols
    /\ IF kernel = "fused" THEN BLOCK_SIZE = NextPowerOf2(n_cols)
                           ELSE BLOCK_SIZE \in 1 .. MaxBlock
    /\ \E r \in [0 .. (n_cols - 1) -> Values] :
          in_mem = [a \in Addrs |-> IF a < n_cols THEN r[a] ELSE Fin(1000, 1)]
    /\ out_mem = [a \in Addrs |-> Uninit]
    /\ pc = [p \in {0} |-> StartPc(kernel)]
    /\ offset = [p \in {0} |-> 0]
    /\ in_max = [p \in {0} |-> NegInf]
    /\ in_exp_sum = [p \in {0} |-> Zero]
    /\ row_idx = [p \in {0} |-> p]
    /\ rows_done = [p \in {0} |-> <<>>]
    /\ chunks = [p \in {0} |-> <<>>]
    /\ store_count = [a \in Addrs |-> 0]
    /\ exp_args = [p \in {0} |-> {}]
    /\ load_count = [p \in {0} |-> [a \in Addrs |-> 0]]
    /\ writers = [a \in Addrs |-> {}]
    /\ y_mem = <<>> /\ n_elements = 0
    /\ TrainIdle
    /\ OccIdle

NextKernels ==
    \/ \E pid \in 0 .. (n_rows - 1) : NaiveMax(pid)
    \/ \E pid \in 0 .. (n_rows - 1) : NaiveSum(pid)
    \/ \E pid \in 0 .. (n_rows - 1) : NaiveWrite(pid)
    \/ \E pid \in 0 .. (n_rows - 1) : kernel = "v1" /\ Accumulate(pid)
    \/ \E pid \in 0 .. (n_rows - 1) : kernel = "v1" /\ Emit(pid)
    \/ \E p \in 0 .. (num_programs - 1) : FusedRow(p)

\* each of the three kernels, on one row
SpecKernels == InitKernels /\ [][NextKernels]_vars

\* the number of columns of its row that program pid has accumulated
Seen(pid) == IF pc[pid] = "acc" THEN offset[pid] ELSE n_cols

\* the maximum of the first cnt entries of the row of pid (-inf for none)
PrefixMax(pid, cnt) ==
    IF cnt = 0 THEN NegInf
    ELSE CHOOSE m \in {In(pid, i) : i \in 0 .. (cnt - 1)} :
            \A j \in 0 .. (cnt - 1) : Leq(In(pid, j), m)

\* the sum over j < cnt of exp(in[j] - m) (0 for none)
RECURSIVE PrefixExpSum(_, _, _)
PrefixExpSum(pid, cnt, m) ==
    IF cnt = 0 THEN Zero
    ELSE Add(PrefixExpSum(pid, cnt - 1, m), Exp(Sub(In(pid, cnt - 1), m)))

\* C15: after every chunk of the first loop, running_max is the maximum of
\* the valid entries accumulated so far and running_sum is the sum over them
\* of exp(entry - running_max); after the last chunk these are M and S.
C15_LoopInvariant ==
    \A pid \in Pids :
        /\ in_max[pid] = PrefixMax(pid, Seen(pid))
        /\ in_exp_sum[pid] = PrefixExpSum(pid, Seen(pid), PrefixMax(pid, Seen(pid)))
        /\ pc[pid] # "acc" =>
              (in_max[pid] = RowMaxRef(pid) /\ in_exp_sum[pid] = ExpSumRef(pid))

\* the row [0, 2, ...] in chunks of 1 after its second chunk: the sum of the
\* first chunk has been rescaled, 1 * exp(0 - 2) + exp(0)
C15_Witness ==
    /\ n_cols = 3 /\ BLOCK_SIZE = 1 /\ pc[0] = "acc" /\ offset[0] = 2
    /\ In(0, 0) = Fin(0, 1) /\ In(0, 1) = Fin(2, 1)
    /\ in_max[0] = Fin(2, 1) /\ in_exp_sum[0] = Fin(5, 4)

\* C16: running_max starts at -inf, never decreases from one step of a
\* program to the next, and is >= every valid entry accumulated so far.
C16_MaxMonotone ==
    /\ [](\A pid \in Pids :
            /\ (pc[pid] = "acc" /\ offset[pid] = 0) => in_max[pid] = NegInf
            /\ \A j \in 0 .. (Seen(pid) - 1) : Leq(In(pid, j), in_max[pid]))
    /\ [][\A pid \in Pids : Leq(in_max[pid], in_max'[pid])]_vars

\* a strictly decreasing row of 3 finished in chunks of 1: the maximum was
\* set by the first chunk and kept through two smaller ones
C16_Witness ==
    /\ n_cols = 3 /\ BLOCK_SIZE = 1 /\ pc[0] = "done"
    /\ Less(In(0, 1), In(0, 0)) /\ Less(In(0, 2), In(0, 1))
    /\ in_max[0] = In(0, 0)

\* how often all programs together have loaded input offset a
RECURSIVE LoadsUpTo(_, _)
LoadsUpTo(a, p) == IF p < 0 THEN 0 ELSE LoadsUpTo(a, p - 1) + load_count[p][a]

TotalLoads(a) == LoadsUpTo(a, num_programs - 1)

\* C17: the naive kernel loads each valid input element exactly three times,
\* the online kernel exactly twice and the fused kernel exactly once; each
\* stores each valid output element exactly once (and nothing else is loaded
\* or stored).
C17_ReadCounts ==
    LET reads == CASE kernel = "naive" -> 3 [] kernel = "v1" -> 2 [] kernel = "fused" -> 1
    IN /\ \A a \in Addrs :
             /\ TotalLoads(a) <= reads /\ store_count[a] <= 1
             /\ a \notin RowAddrs => (TotalLoads(a) = 0 /\ store_count[a] = 0)
       /\ (\A p \in Programs : pc[p] = "done") =>
             \A a \in RowAddrs : TotalLoads(a) = reads /\ store_count[a] = 1

\* the naive kernel finished on a row of 3 in chunks of 2: the entry of the
\* partial chunk was loaded three times and stored once
C17_Witness ==
    /\ kernel = "naive" /\ n_cols = 3 /\ BLOCK_SIZE = 2 /\ pc[0] = "done"
    /\ load_count[0][2] = 3 /\ store_count[2] = 1 /\ IsFin(out_mem[2])

\* the epochs e whose end-of-epoch saving decisions have both been taken
EpochsEnded ==
    {e \in 0 .. (num_epochs - 1) : e < epoch \/ (e = epoch /\ tpc = "done")}

\* C18: evaluate is called exactly at the epochs e with
\* (e + 1) % save_image_epochs = 0 or e = num_epochs - 1, save_pretrained
\* exactly at those with (e + 1) % save_model_epochs = 0 or e = num_epochs - 1,
\* each only after all batches of epochs 0..e were trained on; the final
\* epoch produces both.
C18_SaveSchedule ==
    /\ \A r \in eval_log \cup save_log :
          /\ r[1] \in 0 .. (num_epochs - 1)
          /\ r[2] = (r[1] + 1) * n_batches /\ opt_steps >= r[2]
    /\ \A r \in eval_log :
          (r[1] + 1) % save_image_epochs = 0 \/ r[1] = num_epochs - 1
    /\ \A r \in save_log :
          (r[1] + 1) % save_model_epochs = 0 \/ r[1] = num_epochs - 1
    /\ \A e \in EpochsEnded :
          /\ ((e + 1) % save_image_epochs = 0 \/ e = num_epochs - 1)
                => \E r \in eval_log : r[1] = e
          /\ ((e + 1) % save_model_epochs = 0 \/ e = num_epochs - 1)
                => \E r \in save_log : r[1] = e
    /\ (tpc = "done" /\ num_epochs >= 1) =>
          /\ \E r \in eval_log : r[1] = num_epochs - 1
          /\ \E r \in save_log : r[1] = num_epochs - 1

\* 4 epochs of 2 batches with intervals 3 and 2: sample grids after epochs 2
\* and 3 (the final one, not a multiple), checkpoints after epochs 1 and 3
C18_Witness ==
    /\ tpc = "done" /\ num_epochs = 4 /\ n_batches = 2
    /\ save_image_epochs = 3 /\ save_model_epochs = 2
    /\ eval_log = {<<2, 6>>, <<3, 8>>}
    /\ save_log = {<<1, 4>>, <<3, 8>>}

\* the batches train_loop has finished counting
BatchesCounted ==
    epoch * n_batches + step + (IF tpc \in {"eval", "save", "done"} /\ num_epochs >= 1
                                THEN 1 ELSE 0)

\* C19: global_step is the number of batches trained so far (one more per
\* batch, never reset between epochs); at return global_step, the calls of
\* optimizer.step and the calls of lr_scheduler.step all equal
\* num_epochs * len(train_dataloader) = num_training_steps; lr_scheduler.step
\* is never ahead of optimizer.step.
C19_StepCounts ==
    /\ global_step = BatchesCounted
    /\ sched_steps <= opt_steps
    /\ global_step <= sched_steps /\ opt_steps <= global_step + 1
    /\ tpc = "done" =>
          /\ global_step = num_epochs * n_batches
          /\ opt_steps = global_step /\ sched_steps = global_step
          /\ sched_steps = NumTrainingSteps

\* 3 epochs of 3 batches have returned: 9 steps of each kind
C19_Witness ==
    /\ tpc = "done" /\ num_epochs = 3 /\ n_batches = 3
    /\ global_step = 9 /\ opt_steps = 9 /\ sched_steps = 9

\* the iterations <<p, k>> of the row loops that processed row r
Processings(r) ==
    {pk \in Programs \X (1 .. MaxRows) :
        pk[2] <= Len(rows_done[pk[1]]) /\ rows_done[pk[1]][pk[2]] = r}

\* C20: with 1 <= num_programs <= n_rows, program p processes the rows
\* p, p + P, p + 2P, ... below n_rows in this order and no others; no row is
\* processed twice, no offset past the last row is loaded or stored, no output
\* offset has two writers; when all programs are done every row in [0, n_rows)
\* has been processed exactly once, by program r % P.
C20_RowStriding ==
    /\ \A p \in Programs :
          /\ \A k \in 1 .. Len(rows_done[p]) :
                rows_done[p][k] = p + (k - 1) * num_programs /\ rows_done[p][k] < n_rows
          /\ pc[p] = "done" =>
                Len(rows_done[p]) =
                    Cardinality({r \in 0 .. (n_rows - 1) : r % num_programs = p})
    /\ RowsProcessed \subseteq 0 .. (n_rows - 1)
    /\ \A r \in RowsProcessed : Cardinality(Processings(r)) = 1
    /\ \A a \in Addrs :
          /\ Cardinality(writers[a]) <= 1 /\ store_count[a] <= 1
          /\ a >= n_rows * row_stride => (store_count[a] = 0 /\ TotalLoads(a) = 0)
    /\ (\A p \in Programs : pc[p] = "done") =>
          \A r \in 0 .. (n_rows - 1) : Processings(r) = {<<r % num_programs, (r \div num_programs) + 1>>}

\* two programs have finished three rows: program 0 rows 0 and 2, program 1
\* row 1, and the first entry of row 2 was written by program 0 alone
C20_Witness ==
    /\ n_rows = 3 /\ num_programs = 2
    /\ \A p \in Programs : pc[p] = "done"
    /\ rows_done[0] = <<0, 2>> /\ rows_done[1] = <<1>>
    /\ writers[2 * row_stride] = {0} /\ writers[row_stride] = {1}

\* the chunk loops of each kernel, in program order, and the positions after them
KernelLoops(k) ==
    CASE k = "naive" -> <<"max", "sum", "write">>
      [] k = "v1" -> <<"acc", "emit">>
      [] OTHER -> <<>>

\* the offsets of the chunks program pid has evaluated in loop L, in order
RECURSIVE LoopChunksFrom(_, _, _)
LoopChunksFrom(pid, L, k) ==
    IF k > Len(chunks[pid]) THEN <<>>
    ELSE (IF chunks[pid][k][1] = L THEN <<chunks[pid][k][2]>> ELSE <<>>)
         \o LoopChunksFrom(pid, L, k + 1)

LoopChunks(pid, L) == LoopChunksFrom(pid, L, 1)

\* program pid has left loop number i of its kernel
LoopLeft(pid, i) ==
    \/ pc[pid] = "done"
    \/ \E j \in (i + 1) .. Len(KernelLoops(kernel)) : pc[pid] = KernelLoops(kernel)[j]

\* the in-range columns of the chunk at offset off
ChunkCols(off) == {c \in Cols : off <= c /\ c < off + BLOCK_SIZE}

\* ceil(n / B) for n >= 1, B >= 1
CeilDiv(n, B) == CHOOSE q \in 1 .. n : q * B >= n /\ (q - 1) * B < n

\* C23: in every chunk loop of the naive and the online kernel the chunk being
\* or about to be evaluated starts below n_cols, the chunks evaluated are
\* pairwise disjoint, and once the loop is left they are ceil(n_cols /
\* BLOCK_SIZE) many and cover exactly the columns [0, n_cols).
C23_ChunksCover ==
    kernel \in {"naive", "v1"} =>
        \A pid \in Pids :
            /\ pc[pid] # "done" => offset[pid] < n_cols
            /\ \A i \in 1 .. Len(KernelLoops(kernel)) :
                  LET cs == LoopChunks(pid, KernelLoops(kernel)[i])
                  IN /\ \A k \in 1 .. Len(cs) :
                           /\ cs[k] < n_cols /\ ChunkCols(cs[k]) # {}
                           /\ cs[k] = (k - 1) * BLOCK_SIZE
                           /\ \A j \in 1 .. (k - 1) :
                                 ChunkCols(cs[j]) \cap ChunkCols(cs[k]) = {}
                     /\ LoopLeft(pid, i) =>
                           /\ Len(cs) = CeilDiv(n_cols, BLOCK_SIZE)
                           /\ UNION {ChunkCols(cs[k]) : k \in 1 .. Len(cs)} = Cols

\* the online kernel finished on a row of 3 in chunks of 2: each loop
\* evaluated the chunks at 0 and 2, the second one partial
C23_Witness ==
    /\ kernel = "v1" /\ n_cols = 3 /\ BLOCK_SIZE = 2 /\ pc[0] = "done"
    /\ chunks[0] = << <<"acc", 0>>, <<"acc", 2>>, <<"emit", 0>>, <<"emit", 2>> >>

\* C21: on each of the three target paths every name the occupancy
\* computation reads has been assigned before it is read: the cell raises no
\* NameError.
C21_NamesDefined == err # "NameError"

\* C22: the divisions of the occupancy computation never divide by zero, the
\* launch has 1 <= num_programs <= n_rows programs, and when they have
\* finished every row has been processed.
C22_LaunchSize ==
    /\ err # "ZeroDivisionError"
    /\ opc = "launched" =>
          /\ 1 <= num_programs /\ num_programs <= n_rows
          /\ (\A p \in Programs : pc[p] = "done") => RowsProcessed = 0 .. (n_rows - 1)

====
